---- MODULE Spec2Model ----
(***************************************************************************)
(* The 2D Laplace boundary-value evaluator of SimuPhys, in its two         *)
(* variants: the command-line script src/LaplacePlots.py ("cli") and the   *)
(* Streamlit page src/pages/LaplacePlots.py ("page").                      *)
(*                                                                         *)
(* Text is a tuple of one-character strings, so that lower(), strip(),     *)
(* split(), the substring test, float() and sympify() are computed on the  *)
(* characters.  Numbers are integers.  A literal with a decimal point, an  *)
(* exponent or the word inf, and SymPy's reserved names (pi, E, I, ...)    *)
(* are outside the texts the model draws; FloatParse and Sympify are not   *)
(* meant for them.                                                         *)
(***************************************************************************)
EXTENDS Integers, Sequences, FiniteSets, TLC

----------------------------------------------------------------------------
(* Characters and texts *)

UpperChars == <<"A","B","C","D","E","F","G","H","I","J","K","L","M",
                "N","O","P","Q","R","S","T","U","V","W","X","Y","Z">>
LowerChars == <<"a","b","c","d","e","f","g","h","i","j","k","l","m",
                "n","o","p","q","r","s","t","u","v","w","x","y","z">>
DigitChars == <<"0","1","2","3","4","5","6","7","8","9">>

Range(f) == {f[i] : i \in DOMAIN f}

IsDigit(c) == c \in Range(DigitChars)
IsLetter(c) == c \in Range(UpperChars) \cup Range(LowerChars)
DigitVal(c) == (CHOOSE i \in DOMAIN DigitChars : DigitChars[i] = c) - 1

\* str.lower(), one character
LowerChar(c) ==
    IF c \in Range(UpperChars)
    THEN LowerChars[CHOOSE i \in DOMAIN UpperChars : UpperChars[i] = c]
    ELSE c

\* str.lower()
Lower(s) == [i \in DOMAIN s |-> LowerChar(s[i])]

\* str.strip(), for the blank
RECURSIVE LStrip(_)
LStrip(s) == IF s # <<>> /\ Head(s) = " " THEN LStrip(Tail(s)) ELSE s
RECURSIVE RStrip(_)
RStrip(s) ==
    IF s # <<>> /\ s[Len(s)] = " " THEN RStrip(SubSeq(s, 1, Len(s) - 1)) ELSE s
Strip(s) == LStrip(RStrip(s))

\* c in s
HasChar(s, c) == \E i \in DOMAIN s : s[i] = c

\* sub in s
Contains(s, sub) ==
    \E i \in 1..(Len(s) - Len(sub) + 1) : SubSeq(s, i, i + Len(sub) - 1) = sub

\* s.split(c)[0]
BeforeFirst(s, c) ==
    IF HasChar(s, c)
    THEN SubSeq(s, 1, (CHOOSE i \in DOMAIN s :
                          s[i] = c /\ \A j \in 1..(i - 1) : s[j] # c) - 1)
    ELSE s

\* the text after the first c
AfterFirst(s, c) ==
    IF HasChar(s, c)
    THEN SubSeq(s, (CHOOSE i \in DOMAIN s :
                       s[i] = c /\ \A j \in 1..(i - 1) : s[j] # c) + 1, Len(s))
    ELSE <<>>

\* s.split(c), all the pieces
RECURSIVE Split(_, _)
Split(s, c) ==
    IF HasChar(s, c)
    THEN <<BeforeFirst(s, c)>> \o Split(AfterFirst(s, c), c)
    ELSE <<s>>

AllDigits(s) == s # <<>> /\ \A i \in DOMAIN s : IsDigit(s[i])

\* the value of a run of decimal digits
RECURSIVE DigitsValue(_)
DigitsValue(s) ==
    IF s = <<>> THEN 0
    ELSE 10 * DigitsValue(SubSeq(s, 1, Len(s) - 1)) + DigitVal(s[Len(s)])

\* a Python identifier of letters and digits
IsIdent(s) ==
    /\ s # <<>>
    /\ IsLetter(s[1])
    /\ \A i \in DOMAIN s : IsLetter(s[i]) \/ IsDigit(s[i])

----------------------------------------------------------------------------
(* The texts and names of the program *)

T_nan == <<"n","a","n">>
T_VNought == <<"V","_","n","o","u","g","h","t">>
K_V0 == <<"V","0">>
K_x == <<"x">>
K_y == <<"y">>
K_a == <<"a">>
K_b == <<"b">>

----------------------------------------------------------------------------
(* Values: what an edge is bound to, what float() and a call return *)

None == [t |-> "none"]
Num(v) == [t |-> "num", v |-> v]
NaN == [t |-> "nan"]
\* the closure v_nought; ref names the dict object it closed over
Step(ref) == [t |-> "step", ref |-> ref]
\* a lambdify'd expression: its factors after subs
Expr(fs) == [t |-> "expr", fs |-> fs]

\* an exception, where a value was expected
Raise(type) == [t |-> "raise", type |-> type]

IsCallable(v) == v.t \in {"step", "expr"}

\* float(s)
FloatParse(s) ==
    LET t == Strip(s)
        signed == t # <<>> /\ t[1] \in {"+", "-"}
        body == IF signed THEN Tail(t) ELSE t
        neg == signed /\ t[1] = "-"
    IN  IF AllDigits(body)
        THEN Num(IF neg THEN 0 - DigitsValue(body) ELSE DigitsValue(body))
        ELSE IF Lower(body) = T_nan
        THEN NaN
        ELSE Raise("ValueError")

\* one factor of a product: a number or a symbol
Factor(s) ==
    LET t == Strip(s)
    IN  IF AllDigits(t) THEN [k |-> "num", v |-> DigitsValue(t), s |-> <<>>]
        ELSE IF IsIdent(t) THEN [k |-> "sym", v |-> 0, s |-> t]
        ELSE [k |-> "bad", v |-> 0, s |-> t]

\* sp.sympify(s), for products of numbers and symbols
Sympify(s) ==
    LET fs == [i \in DOMAIN Split(s, "*") |-> Factor(Split(s, "*")[i])]
    IN  IF \E i \in DOMAIN fs : fs[i].k = "bad"
        THEN Raise("SympifyError")
        ELSE [t |-> "sym_expr", fs |-> fs]

\* expr.free_symbols
FreeSymbols(e) == {e.fs[i].s : i \in {j \in DOMAIN e.fs : e.fs[j].k = "sym"}}

----------------------------------------------------------------------------
(* Dicts: a function from names to values.  The heap holds the two dict    *)
(* objects a closure can refer to: the one the caller passed ("request")   *)
(* and the one the def statement built for prompted={} ("default").        *)

EmptyDict == [k \in {} |-> None]

\* d.get(k, dflt)
DictGet(d, k, dflt) == IF k \in DOMAIN d THEN d[k] ELSE dflt

\* {**d, **e}: e wins
DictMerge(d, e) ==
    [k \in DOMAIN d \cup DOMAIN e |-> IF k \in DOMAIN e THEN e[k] ELSE d[k]]

\* an order of a finite set of names (Python iterates a set in an order of its own)
RECURSIVE SetToSeq(_)
SetToSeq(S) ==
    IF S = {} THEN <<>>
    ELSE LET e == CHOOSE e \in S : TRUE IN <<e>> \o SetToSeq(S \ {e})

\* the value V_nought falls back to when the dict has no V0
DefaultV0 == 5
\* the value an invalid reply is replaced by
InvalidDefault == 0

\* the product of the factors at (x, y); a symbol left unbound is a NameError
RECURSIVE Product(_, _, _)
Product(fs, x, y) ==
    IF fs = <<>> THEN Num(1)
    ELSE LET f == Head(fs)
             rest == Product(Tail(fs), x, y)
             v == IF f.k = "num" THEN Num(f.v)
                  ELSE IF f.k = "nan" THEN NaN
                  ELSE IF f.s = K_x THEN Num(x)
                  ELSE IF f.s = K_y THEN Num(y)
                  ELSE Raise("NameError")
         IN  IF v.t = "raise" THEN v
             ELSE IF rest.t = "raise" THEN rest
             ELSE IF v.t = "nan" \/ rest.t = "nan" THEN NaN
             ELSE Num(v.v * rest.v)

\* a factor for a bound value
ValueFactor(v) ==
    IF v.t = "nan" THEN [k |-> "nan", v |-> 0, s |-> <<>>]
    ELSE [k |-> "num", v |-> v.v, s |-> <<>>]

\* expr.subs(d) followed by lambdify: the factors with every bound symbol replaced
SubsValues(e, d) ==
    [i \in DOMAIN e.fs |->
        IF e.fs[i].k = "sym" /\ e.fs[i].s \in DOMAIN d
        THEN ValueFactor(d[e.fs[i].s])
        ELSE e.fs[i]]

\* the step with both bounds closed
v_nought_closed(V0, a, y) == IF (0 - a) <= 2 * y /\ 2 * y <= a THEN V0 ELSE Num(0)
\* v_nought(x, y): V0 if -a/2 < y < a/2 else 0
v_nought(V0, a, y) == IF (0 - a) < 2 * y /\ 2 * y < a THEN V0 ELSE Num(0)

\* f(x, y) for a bound edge f; heap[ref] is the dict the closure reads when called
Apply(f, x, y, a, heap) ==
    IF f.t = "step" THEN v_nought(DictGet(heap[f.ref], K_V0, Num(DefaultV0)), a, y)
    ELSE IF f.t = "expr" THEN Product(f.fs, x, y)
    ELSE Raise("TypeError")

\* f(x, y) if callable(f) else f
CallOrValue(f, x, y, a, heap) == IF IsCallable(f) THEN Apply(f, x, y, a, heap) ELSE f

----------------------------------------------------------------------------
(* The binder *)

\* what one call of the binder does: the value it returns, the dict it
\* leaves, the messages it prints and the input() calls it made
Bound(val, dict, out, asked) ==
    [val |-> val, dict |-> dict, out |-> out, asked |-> asked]

\* one input() call: the name asked for, the prompt used and the reply typed
Asked(k, via, reply) == [name |-> k, via |-> via, reply |-> reply]
AskedAll(new, replies) ==
    [i \in DOMAIN SetToSeq(new) |->
        Asked(SetToSeq(new)[i], "constant", replies[SetToSeq(new)[i]])]

\* print(f"Error parsing function '{user_input}': {e}") / st.error(...)
ParseErrorMsg(s) == [kind |-> "parse_error", text |-> s, name |-> <<>>]
\* print(f"Invalid value for '{sym_str}', using 0.")
InvalidValueMsg(k) == [kind |-> "invalid_value", text |-> <<>>, name |-> k]

\* the test of the command-line script for the V_nought pattern
CliIsVNought(s) ==
    /\ HasChar(s, "(")
    /\ HasChar(s, ")")
    /\ Strip(BeforeFirst(s, "(")) = T_VNought

\* the names a call of the command-line binder calls input() for
CliAsks(s, prompted) ==
    IF Lower(s) = T_nan THEN {}
    ELSE IF CliIsVNought(s) THEN {K_V0} \ DOMAIN prompted
    ELSE IF Sympify(s).t = "raise" THEN {}
    ELSE (FreeSymbols(Sympify(s)) \ {K_x, K_y, K_a, K_b}) \ DOMAIN prompted

\* float(val), or 0.0 with a message
ReplyOrZero(reply) ==
    IF FloatParse(reply).t = "raise" THEN Num(InvalidDefault) ELSE FloatParse(reply)

\* the binder keeping a value it could not read
CliParseExpr_raising(s, a, b, prompted, replies) ==
    LET e == Sympify(s)
        new == (FreeSymbols(e) \ {K_x, K_y, K_a, K_b}) \ DOMAIN prompted
    IN  IF \E k \in new : FloatParse(replies[k]).t = "raise"
        THEN Bound(None, prompted, {ParseErrorMsg(s)}, AskedAll(new, replies))
        ELSE LET p2 == DictMerge(prompted, [k \in new |-> FloatParse(replies[k])])
             IN  Bound(Expr(SubsValues(e, DictMerge((K_a :> Num(a)) @@ (K_b :> Num(b)), p2))),
                       p2, {}, AskedAll(new, replies))

\* src/LaplacePlots.py lines 42-62, for a text sympify accepts
CliParseExpr(s, a, b, prompted, replies) ==
    LET e == Sympify(s)
        others == FreeSymbols(e) \ {K_x, K_y, K_a, K_b}
        new == others \ DOMAIN prompted
        p2 == DictMerge(prompted, [k \in new |-> ReplyOrZero(replies[k])])
        local_params == DictMerge((K_a :> Num(a)) @@ (K_b :> Num(b)),
                                  [k \in others |-> p2[k]])
    IN  Bound(Expr(SubsValues(e, local_params)), p2,
              {InvalidValueMsg(k) : k \in {n \in new : FloatParse(replies[n]).t = "raise"}},
              AskedAll(new, replies))

\* the binder letting the exception out
CliParse_propagating(s, a, b, prompted, replies, ref) ==
    IF Lower(s) = T_nan THEN Bound(None, prompted, {}, <<>>)
    ELSE IF CliIsVNought(s)
    THEN IF K_V0 \in DOMAIN prompted THEN Bound(Step(ref), prompted, {}, <<>>)
         ELSE IF FloatParse(replies[K_V0]).t = "raise"
         THEN Bound(Raise("ParseError"), prompted, {}, <<Asked(K_V0, "V_nought", replies[K_V0])>>)
         ELSE Bound(Step(ref), DictMerge(prompted, K_V0 :> FloatParse(replies[K_V0])),
                    {}, <<Asked(K_V0, "V_nought", replies[K_V0])>>)
    ELSE IF Sympify(s).t = "raise"
    THEN Bound(Raise("ParseError"), prompted, {}, <<>>)
    ELSE CliParseExpr(s, a, b, prompted, replies)

\* parse_user_function of the command-line script; replies[k] is what the
\* user types when asked for k, ref the dict object `prompted` is
CliParse(s, a, b, prompted, replies, ref) ==
    IF Lower(s) = T_nan THEN Bound(None, prompted, {}, <<>>)
    ELSE IF CliIsVNought(s)
    THEN IF K_V0 \in DOMAIN prompted THEN Bound(Step(ref), prompted, {}, <<>>)
         ELSE IF FloatParse(replies[K_V0]).t = "raise"
         THEN Bound(None, prompted, {ParseErrorMsg(s)}, <<Asked(K_V0, "V_nought", replies[K_V0])>>)
         ELSE Bound(Step(ref), DictMerge(prompted, K_V0 :> FloatParse(replies[K_V0])),
                    {}, <<Asked(K_V0, "V_nought", replies[K_V0])>>)
    ELSE IF Sympify(s).t = "raise"
    THEN Bound(None, prompted, {ParseErrorMsg(s)}, <<>>)
    ELSE CliParseExpr(s, a, b, prompted, replies)

\* parse_user_function of the page
PageParse(s, a, b, all_constants) ==
    IF s = <<>> \/ Lower(s) = T_nan THEN Bound(None, all_constants, {}, <<>>)
    ELSE IF Contains(s, T_VNought) THEN Bound(Step("request"), all_constants, {}, <<>>)
    ELSE IF Sympify(s).t = "raise"
    THEN Bound(None, all_constants, {ParseErrorMsg(s)}, <<>>)
    ELSE Bound(Expr(SubsValues(Sympify(s),
                    DictMerge((K_a :> Num(a)) @@ (K_b :> Num(b)), all_constants))),
               all_constants, {}, <<>>)

\* one turn of the loop of the Solve and Plot handler: float(s), else the binder
PageBind(s, a, b, all_constants) ==
    IF FloatParse(s).t # "raise"
    THEN Bound(FloatParse(s), all_constants, {}, <<>>)
    ELSE PageParse(s, a, b, all_constants)

\* find_all_symbols, for one text
SymbolsOf(s) ==
    IF s = <<>> \/ Lower(s) = T_nan THEN {}
    ELSE IF Contains(s, T_VNought) THEN {K_V0}
    ELSE IF Sympify(s).t = "raise" THEN {}
    ELSE FreeSymbols(Sympify(s)) \ {K_x, K_y, K_a, K_b}

\* find_all_symbols
find_all_symbols(str_list) == UNION {SymbolsOf(str_list[i]) : i \in DOMAIN str_list}

----------------------------------------------------------------------------
(* The solver *)

\* the y at which the model samples a boundary function
MaxY == 2
YS == (0 - MaxY)..MaxY

\* the largest number of Fourier terms a request asks for
MaxTerms == 2

latex_side == "V(x,y) = sum_{n=1}^{inf} C_n sinh(n pi (x+b)/(2a)) sin(n pi (y+a)/(2a))"
latex_center == "V(x,y) = sum_{n=1}^{inf} C_n sin(n pi y/a) e^{-n pi |x|/a}"
latex_cosh ==
    "V(x,y) = 4V_0/pi sum_{n=1,3,5,...} 1/n cosh(n pi x/a)/cosh(n pi b/a) sin(n pi y/a)"
latex_none ==
    "No specific solution implemented for this combination of boundary conditions."

\* range(1, terms + 1)
RangeAll(terms) == [i \in 1..terms |-> i]
\* range(1, terms + 1, 2): the odd numbers up to terms
RangeOdd_up_to_terms(terms) == [i \in 1..((terms + 1) \div 2) |-> 2 * i - 1]
\* range(1, 2 * terms, 2)
RangeOdd(terms) == [i \in 1..terms |-> 2 * i - 1]

\* V = np.zeros_like(X), never added to
ZeroField == [kind |-> "zeros", ns |-> <<>>, profile |-> <<>>, amp |-> None]

\* the sum of C_n terms: the n summed and V0_func(0, y), which calculate_Cn integrates
CnField(ns, f, a, heap) ==
    [kind |-> "series", ns |-> ns,
     profile |-> [y \in YS |-> Apply(f, 0, y, a, heap)], amp |-> None]

\* the odd-n cosh sum of amplitude V0
CoshField(ns, V0) == [kind |-> "series", ns |-> ns, profile |-> <<>>, amp |-> V0]

\* what solve_laplace_complete returns, or the exception that leaves it
Returned(branch, latex_eqn, parameter_desc, field) ==
    [status |-> "ok", err |-> "", branch |-> branch, latex_eqn |-> latex_eqn,
     parameter_desc |-> parameter_desc, field |-> field]
Raised(type) ==
    [status |-> "raise", err |-> type, branch |-> "", latex_eqn |-> "",
     parameter_desc |-> "", field |-> ZeroField]

\* abs(u - v) < 1e-10, on integers and nan
AbsClose(u, v) == u.t = "num" /\ v.t = "num" /\ u.v = v.v

\* np.allclose(u, v) with rtol = 1e-5 and atol = 1e-8, on integers and nan:
\* |u - v| <= 1e-8 + 1e-5 |v|
AllClose(u, v) ==
    /\ u.t = "num"
    /\ v.t = "num"
    /\ LET d == IF u.v >= v.v THEN u.v - v.v ELSE v.v - u.v
           m == IF v.v >= 0 THEN v.v ELSE 0 - v.v
       IN  d <= m \div 100000

\* lines 87-100 of the command-line script: the sum of C_n sinh sin terms
CliSide(a, b, terms, bf, heap) ==
    Returned("side", latex_side, "where C_n = ...",
             CnField(RangeAll(terms), bf[1], a, heap))

\* lines 104-110: the sum of C_n sin exp terms; calculate_Cn calls V_x0
CliCenter(a, b, terms, bf, heap) ==
    IF IsCallable(bf[5])
    THEN Returned("center", latex_center, "where C_n are the Fourier coefficients",
                  CnField(RangeAll(terms), bf[5], a, heap))
    ELSE Raised("TypeError")

\* lines 113-128: the cosh sum when both x edges agree, else nothing
CliStandard(a, b, terms, bf, heap) ==
    LET V_x_minus == bf[1]
        V_x_plus == bf[2]
        v_minus == CallOrValue(V_x_minus, 0 - b, 0, a, heap)
        v_plus == CallOrValue(V_x_plus, b, 0, a, heap)
        V0 == IF V_x_minus # None /\ V_x_plus # None
                 /\ v_minus # None /\ v_plus # None /\ AbsClose(v_minus, v_plus)
              THEN v_minus ELSE None
    IN  IF V0 # None
        THEN Returned("sym", latex_cosh, "where V0 = ...", CoshField(RangeOdd(terms), V0))
        ELSE Returned("none", "", "", ZeroField)

\* the cascade with the centre line tested first
CliSolve_center_first(a, b, terms, bf, heap) ==
    IF bf[5] # None THEN CliCenter(a, b, terms, bf, heap)
    ELSE IF bf[1] # None /\ IsCallable(bf[1]) THEN CliSide(a, b, terms, bf, heap)
    ELSE CliStandard(a, b, terms, bf, heap)

\* solve_laplace_complete of the command-line script
CliSolve(a, b, terms, bf, heap) ==
    IF bf[1] # None /\ IsCallable(bf[1]) THEN CliSide(a, b, terms, bf, heap)
    ELSE IF bf[5] # None THEN CliCenter(a, b, terms, bf, heap)
    ELSE CliStandard(a, b, terms, bf, heap)

\* lines 80-87 of the page: the test for the cosh solution
PageIsStandard(a, b, bf, heap) ==
    LET v_minus_val == CallOrValue(bf[1], 0 - b, 0, a, heap)
        v_plus_val == CallOrValue(bf[2], b, 0, a, heap)
        y_minus == CallOrValue(bf[3], 0 - b, 0 - a, a, heap)
        y_plus == CallOrValue(bf[4], b, a, a, heap)
    IN  /\ v_minus_val # None
        /\ v_plus_val # None
        /\ AllClose(v_minus_val, v_plus_val)
        /\ AllClose(y_minus, Num(0))
        /\ AllClose(y_plus, Num(0))

\* lines 88-103 of the page
PageStandard(a, b, terms, bf, heap) ==
    Returned("sym", latex_cosh,
             "Solution for V(x, y=+-a)=0 and V(+-b, y)=V_0, with V_0 = ...",
             CoshField(RangeOdd(terms), CallOrValue(bf[1], 0 - b, 0, a, heap)))

\* lines 105-114 of the page
PageElse(a, b, terms, bf, heap) ==
    IF IsCallable(bf[5]) /\ bf[5].t = "step"
    THEN Returned("center", latex_center, "Solution for potential on center line",
                  CnField(RangeAll(terms), bf[5], a, heap))
    ELSE Returned("none", latex_none,
                  "The plot may be empty or show a trivial solution.", ZeroField)

\* np.allclose(None, 0) of lines 83-84 raises
PageYEdgeRaises(bf) == bf[3] = None \/ bf[4] = None

\* solve_laplace_complete of the page
PageSolve(a, b, terms, bf, heap) ==
    IF PageYEdgeRaises(bf) THEN Raised("TypeError")
    ELSE IF PageIsStandard(a, b, bf, heap) THEN PageStandard(a, b, terms, bf, heap)
    ELSE PageElse(a, b, terms, bf, heap)

----------------------------------------------------------------------------
(* The arrays.  An entry of a float64 array is modelled by its class: "zero" *)
(* (exactly 0.0), "fin" (finite, not zero), "inf" or "nan".  A point of a    *)
(* grid is the fraction num/den, den > 0.                                    *)

\* np.pi, in units of 1e-4
PiE4 == 31416
\* the largest z for which np.sinh(z) and np.cosh(z) are finite in float64
\* (710.4758...), in units of 1e-4
SinhMaxE4 == 7104758
\* the largest z for which np.exp(-z) is not 0.0 in float64 (745.1332...),
\* in units of 1e-4
ExpMinE4 == 7451332

Abs(i) == IF i >= 0 THEN i ELSE 0 - i

\* np.linspace(lo, hi, n) for n >= 0; a negative n raises ValueError
linspace(lo, hi, n) ==
    IF n = 1 THEN << [num |-> lo, den |-> 1] >>
    ELSE [k \in 1..n |-> [num |-> lo * (n - 1) + (hi - lo) * (k - 1), den |-> n - 1]]

\* np.sinh(pi * num / den)
SinhClass(num, den) ==
    IF num = 0 THEN "zero"
    ELSE IF PiE4 * Abs(num) > SinhMaxE4 * den THEN "inf"
    ELSE "fin"

\* np.cosh(pi * num / den)
CoshClass(num, den) == IF PiE4 * Abs(num) > SinhMaxE4 * den THEN "inf" ELSE "fin"

\* np.sin(pi * num / den): 0.0 only at 0, the float k * pi is no zero of sin
SinClass(num, den) == IF num = 0 THEN "zero" ELSE "fin"

\* np.exp(-pi * num / den), num >= 0
ExpNegClass(num, den) == IF PiE4 * num > ExpMinE4 * den THEN "zero" ELSE "fin"

\* u * v in float64: 0 * inf is nan
FMul(u, v) ==
    IF u = "nan" \/ v = "nan" THEN "nan"
    ELSE IF {u, v} = {"zero", "inf"} THEN "nan"
    ELSE IF u = "zero" \/ v = "zero" THEN "zero"
    ELSE IF u = "inf" \/ v = "inf" THEN "inf"
    ELSE "fin"

\* u + v in float64; two finite terms that cancel exactly are not modelled
FAdd(u, v) ==
    IF u = "nan" \/ v = "nan" THEN "nan"
    ELSE IF u = "inf" \/ v = "inf" THEN "inf"
    ELSE IF u = "zero" /\ v = "zero" THEN "zero"
    ELSE "fin"

\* np.clip(u, -1e15, 1e15): nan stays nan
FClip(u) == IF u = "inf" THEN "fin" ELSE u

\* the class of a bound number
ClassOf(v) ==
    IF v.t = "num" THEN (IF v.v = 0 THEN "zero" ELSE "fin") ELSE "nan"

\* quad(integrand, -a, a) of calculate_Cn: 0.0 when V0_func is 0 on [-a, a]
QuadClass(f, a, heap) ==
    LET ys == {y \in YS : (0 - a) <= y /\ y <= a}
        vs == {Apply(f, 0, y, a, heap) : y \in ys}
    IN  IF \E v \in vs : v.t # "num" THEN "nan"
        ELSE IF \A v \in vs : v.v = 0 THEN "zero"
        ELSE "fin"

\* np.sinh(n * np.pi * b / a) of calculate_Cn: the argument is not clipped
CnSinh(n, a, b) == SinhClass(n * b, a)

\* calculate_Cn(n, a, b, V0_func): (2 / (a * np.sinh(n * np.pi * b / a))) * result
calculate_Cn(n, a, b, V0_func, heap) ==
    FMul(IF CnSinh(n, a, b) = "inf" THEN "zero" ELSE "fin", QuadClass(V0_func, a, heap))

\* u / v in float64
FDiv(u, v) ==
    IF u = "nan" \/ v = "nan" THEN "nan"
    ELSE IF u = v /\ u \in {"zero", "inf"} THEN "nan"
    ELSE IF u = "zero" \/ v = "inf" THEN "zero"
    ELSE IF u = "inf" \/ v = "zero" THEN "inf"
    ELSE "fin"

\* V after the loop: the terms ts[1], ..., ts[k] added to zeros.  On classes
\* FAdd is associative, commutative and idempotent, so that the sum is the
\* greatest class among the terms in the order zero, fin, inf, nan
SumTo(ts, k) ==
    LET cs == {ts[n] : n \in 1..k}
    IN  IF "nan" \in cs THEN "nan"
        ELSE IF "inf" \in cs THEN "inf"
        ELSE IF "fin" \in cs THEN "fin"
        ELSE "zero"

\* no array: the call raised
NoArray == <<>>

\* line 89: np.sinh(n * np.pi * (X_scaled + b_scaled) / (2 * a_scaled)), the
\* argument not clipped
sinh_term(n, X, a, b) == SinhClass(n * (X.num + b * X.den), 2 * a * X.den)

\* src/LaplacePlots.py lines 89-93: Cn * sinh_term * sin_term, clipped
CliSideTerm(n, X, Y, a, b, Cn) ==
    FClip(FMul(FMul(Cn, sinh_term(n, X, a, b)),
               SinClass(n * (Y.num + a * Y.den), 2 * a * Y.den)))

\* lines 106-107 (lines 108-109 of the page, which does not clip)
CenterTerm(n, X, Y, a, Cn) ==
    FClip(FMul(FMul(Cn, SinClass(n * Y.num, a * Y.den)),
               ExpNegClass(n * Abs(X.num), a * X.den)))

\* lines 78-83 and 123-125: the arguments of the two cosh and of the sine, as
\* fractions of pi, with X_scaled = X / scale, Y_scaled = Y / scale,
\* a_scaled = a / scale, b_scaled = b / scale and scale = min(a, b)
CliCoshArgs(n, X, Y, a, b) ==
    LET scale == IF a <= b THEN a ELSE b
    IN  [cosh |-> [num |-> n * X.num * scale, den |-> X.den * scale * a],
         denom |-> [num |-> n * b * scale, den |-> scale * a],
         sin |-> [num |-> n * Y.num, den |-> Y.den * scale]]

\* lines 123-125: both cosh clipped, the sine taken of Y_scaled = Y / min(a, b)
CliCoshTerm(n, X, Y, a, b, V0) ==
    LET arg == CliCoshArgs(n, X, Y, a, b)
        cosh_term == FClip(CoshClass(arg.cosh.num, arg.cosh.den))
        denom == FClip(CoshClass(arg.denom.num, arg.denom.den))
    IN  FMul(FMul(ClassOf(V0), FDiv(cosh_term, denom)),
             SinClass(arg.sin.num, arg.sin.den))

\* lines 90-99 of the page: the arguments of cosh are clipped to 700, below
\* the overflow bound, so that np.isinf(denom) and denom < 1e-9 are false
PageCoshTerm(n, X, Y, a, b, V0) ==
    FMul(FMul(ClassOf(V0), FDiv("fin", "fin")), SinClass(n * Y.num, a * Y.den))

\* the array V the command-line solver returns from the branch it took
CliArray(branch, a, b, nx, ny, terms, bf, heap) ==
    LET x == linspace(0 - 2 * b, 2 * b, nx)
        y == linspace(0 - 2 * a, 2 * a, ny)
        f == IF branch = "side" THEN bf[1] ELSE bf[5]
        Cn == [n \in 1..terms |-> calculate_Cn(n, a, b, f, heap)]
        V0 == CallOrValue(bf[1], 0 - b, 0, a, heap)
    IN  [p \in (1..ny) \X (1..nx) |->
            LET X == x[p[2]]
                Y == y[p[1]]
            IN  IF branch = "side"
                THEN FClip(SumTo([n \in 1..terms |-> CliSideTerm(n, X, Y, a, b, Cn[n])],
                                 terms))
                ELSE IF branch = "center"
                THEN SumTo([n \in 1..terms |-> CenterTerm(n, X, Y, a, Cn[n])], terms)
                ELSE IF branch = "sym"
                THEN SumTo([i \in 1..terms |-> CliCoshTerm(2 * i - 1, X, Y, a, b, V0)],
                           terms)
                ELSE "zero"]

\* the array V the page's solver returns from the branch it took
PageArray(branch, a, b, nx, ny, terms, bf, heap) ==
    LET x == linspace(0 - b, b, nx)
        y == linspace(0 - a, a, ny)
        Cn == [n \in 1..terms |-> calculate_Cn(n, a, b, bf[5], heap)]
        V0 == CallOrValue(bf[1], 0 - b, 0, a, heap)
    IN  [p \in (1..ny) \X (1..nx) |->
            LET X == x[p[2]]
                Y == y[p[1]]
            IN  IF branch = "center"
                THEN SumTo([n \in 1..terms |-> CenterTerm(n, X, Y, a, Cn[n])], terms)
                ELSE IF branch = "sym"
                THEN SumTo([i \in 1..terms |-> PageCoshTerm(2 * i - 1, X, Y, a, b, V0)],
                           terms)
                ELSE "zero"]

\* solve_laplace_complete(a, b, nx, ny, terms, boundary_funcs) of the script
\* (cli) or of the page: what it returns or raises, and the array V
Solve(variant, a, b, nx, ny, terms, bf, heap) ==
    IF nx < 0 \/ ny < 0 THEN [result |-> Raised("ValueError"), V |-> NoArray]
    ELSE LET r == IF variant = "cli" THEN CliSolve(a, b, terms, bf, heap)
                  ELSE PageSolve(a, b, terms, bf, heap)
         IN  [result |-> r,
              V |-> IF r.status # "ok" THEN NoArray
                    ELSE IF variant = "cli"
                    THEN CliArray(r.branch, a, b, nx, ny, terms, bf, heap)
                    ELSE PageArray(r.branch, a, b, nx, ny, terms, bf, heap)]

----------------------------------------------------------------------------
(* The texts and numbers a request is drawn from *)

S_NaN == <<"N","a","N">>
S_empty == <<>>
S_0 == <<"0">>
S_5 == <<"5">>
S_VNought == <<"V","_","n","o","u","g","h","t","(","y",")">>
S_V0y == <<"V","0","*","y">>
S_bad == <<"@","@","@">>

\* the texts of the six edges x=-b, x=+b, y=-a, y=+a, x=0, y=0
EdgeTexts ==
    << {S_NaN, S_empty, S_5, S_VNought, S_V0y, S_bad},
       {S_NaN, S_5, S_VNought},
       {S_0, T_nan, S_empty},
       {S_0, S_empty},
       {S_NaN, S_VNought, S_V0y},
       {S_NaN, S_bad} >>
TextSets ==
    {<<t1, t2, t3, t4, t5, t6>> :
        t1 \in EdgeTexts[1], t2 \in EdgeTexts[2], t3 \in EdgeTexts[3],
        t4 \in EdgeTexts[4], t5 \in EdgeTexts[5], t6 \in EdgeTexts[6]}

\* what the user types when asked for a constant
Replies == {<<"2">>, <<"5">>, <<"a","b","c">>}
\* what a number_input of the page holds
WidgetValues == {Num(2), Num(5)}

\* the half-height a and the half-width b
APool == {2, 4}
BPool == {3}
TermsPool == 1..MaxTerms
\* nx and ny of a request, as <<nx, ny>>
GridPool == {<<5, 5>>}

----------------------------------------------------------------------------
(* The state *)

VARIABLES
    mode,             \* "cli": the script run as __main__; "lib": a caller of the
                      \* script's functions that passes no `prompted`; "page": the
                      \* Streamlit page; "call_cli", "call_page": a direct caller
                      \* of the solver of the script, of the page
    pc,               \* "idle", "parsing" (between two binder calls), "done"
    a, b, terms,      \* the domain and the number of terms of the request
    strs,             \* the six texts handed to the binder
    funcs,            \* the edges bound so far (boundary_funcs)
    prompted,         \* the dict of the request (prompted_constants)
    defaultPrompted,  \* the dict object of the default argument prompted={}
    out,              \* the messages printed in the request
    asked,            \* the input() calls of the request
    result,           \* what the solver returned or raised
    nx, ny,           \* the numbers of grid points of the request
    V,                \* the array the solver returned: the class of V[row, column]
    prev,             \* what the call before returned, when the solver is called
                      \* again with the same arguments
    session_state,    \* st.session_state of the projectile page
    browser,          \* what the last run of that page's script rendered: the
                      \* sliders of the initial conditions disabled or not, and
                      \* the label of the first button
    rerun,            \* st.rerun() was called and the next run has not started
    ghost             \* history: the last event of the page and what was done
                      \* since the last pause

\* the variables of the pages other than the Laplace solver
otherPages == <<session_state, browser, rerun, ghost>>

vars == <<mode, pc, a, b, terms, strs, funcs, prompted, defaultPrompted,
          out, asked, result, nx, ny, V, prev, otherPages>>

NoResult ==
    [status |-> "none", err |-> "", branch |-> "", latex_eqn |-> "",
     parameter_desc |-> "", field |-> ZeroField]

Heap == [request |-> prompted, default |-> defaultPrompted]

\* the dict object the binder of this process works on
DictRef == IF mode = "lib" THEN "default" ELSE "request"

\* no session of another page is open
NoSession == <<>>
PagesIdle ==
    /\ session_state = NoSession
    /\ browser = NoSession
    /\ rerun = FALSE
    /\ ghost = NoSession

LaplaceIdle(m) ==
    /\ mode = m
    /\ pc = "idle"
    /\ a = 0 /\ b = 0 /\ terms = 0
    /\ strs = <<>> /\ funcs = <<>>
    /\ prompted = EmptyDict
    /\ defaultPrompted = EmptyDict
    /\ out = {} /\ asked = <<>>
    /\ result = NoResult
    /\ nx = 0 /\ ny = 0
    /\ V = NoArray
    /\ prev = NoResult

Idle(m) == LaplaceIdle(m) /\ PagesIdle

Init == \E m \in {"cli", "lib", "page"} : Idle(m)

\* src/LaplacePlots.py lines 150-168: the inputs are read, empty texts become
\* "NaN".  terms is read here too and first used by the solve: the model draws
\* it where it is used.
CliStart ==
    /\ mode \in {"cli", "lib"}
    /\ pc = "idle"
    /\ \E av \in APool, bv \in BPool, ts \in TextSets :
        /\ a' = av /\ b' = bv
        /\ strs' = [i \in 1..6 |-> IF ts[i] = <<>> THEN S_NaN ELSE ts[i]]
    /\ terms' = 0
    /\ pc' = "parsing"
    /\ funcs' = <<>>
    /\ prompted' = EmptyDict
    /\ out' = {}
    /\ asked' = <<>>
    /\ result' = NoResult
    /\ UNCHANGED <<otherPages, mode, defaultPrompted, nx, ny, V, prev>>

\* one call of the binder in the list comprehension of lines 170-174 and, after
\* the sixth, the solve of line 177
CliParseEdge ==
    /\ mode \in {"cli", "lib"}
    /\ pc = "parsing"
    /\ LET i == Len(funcs) + 1
           d == Heap[DictRef]
       IN  \E replies \in [CliAsks(strs[i], d) -> Replies] :
             LET r == CliParse(strs[i], a, b, d, replies, DictRef)
                 heap2 == [Heap EXCEPT ![DictRef] = r.dict]
                 fs == Append(funcs, r.val)
             IN  /\ funcs' = fs
                 /\ prompted' = heap2.request
                 /\ defaultPrompted' = heap2.default
                 /\ out' = out \cup r.out
                 /\ asked' = asked \o r.asked
                 /\ IF i = 6
                    THEN /\ pc' = "done"
                         /\ \E tv \in TermsPool, g \in GridPool :
                              LET s == Solve("cli", a, b, g[1], g[2], tv, fs, heap2)
                              IN  /\ terms' = tv
                                  /\ nx' = g[1] /\ ny' = g[2]
                                  /\ result' = s.result
                                  /\ V' = s.V
                    ELSE /\ pc' = "parsing"
                         /\ UNCHANGED <<terms, result, nx, ny, V>>
    /\ UNCHANGED <<otherPages, mode, a, b, strs, prev>>

\* lines 229-242 of the page: the six texts bound, then the solve
PageRun(ts, av, bv, g, tv, consts) ==
    LET bound == [i \in 1..6 |-> PageBind(ts[i], av, bv, consts)]
        fs == [i \in 1..6 |-> bound[i].val]
        s == Solve("page", av, bv, g[1], g[2], tv, fs,
                   [request |-> consts, default |-> EmptyDict])
    IN  [funcs |-> fs,
         out |-> UNION {bound[i].out : i \in 1..6},
         result |-> s.result,
         V |-> s.V]

\* src/pages/LaplacePlots.py lines 157-167 and 227-242: one run of the page's
\* script with the button pressed
PageSolveAndPlot ==
    /\ mode = "page"
    /\ pc = "idle"
    /\ \E av \in APool, bv \in BPool, tv \in TermsPool, ts \in TextSets, g \in GridPool :
        \E consts \in [find_all_symbols(ts) -> WidgetValues] :
          LET run == PageRun(ts, av, bv, g, tv, consts)
          IN  /\ a' = av /\ b' = bv /\ terms' = tv
              /\ nx' = g[1] /\ ny' = g[2]
              /\ strs' = ts
              /\ prompted' = consts
              /\ funcs' = run.funcs
              /\ out' = run.out
              /\ result' = run.result
              /\ V' = run.V
    /\ pc' = "done"
    /\ asked' = <<>>
    /\ UNCHANGED <<otherPages, mode, defaultPrompted, prev>>

\* the request is over: the script ends, or the page waits for the next run
Finish ==
    /\ pc = "done"
    /\ pc' = "idle"
    /\ a' = 0 /\ b' = 0 /\ terms' = 0
    /\ strs' = <<>> /\ funcs' = <<>>
    /\ prompted' = EmptyDict
    /\ out' = {} /\ asked' = <<>>
    /\ result' = NoResult
    /\ nx' = 0 /\ ny' = 0
    /\ V' = NoArray
    /\ prev' = NoResult
    /\ UNCHANGED <<otherPages, mode, defaultPrompted>>

Next == CliStart \/ CliParseEdge \/ PageSolveAndPlot \/ Finish

Spec == Init /\ [][Next]_vars

----------------------------------------------------------------------------
(* The solver called directly, with bound values *)

Y_fn == Expr(<<[k |-> "sym", v |-> 0, s |-> K_y]>>)
Five_fn == Expr(<<[k |-> "num", v |-> 5, s |-> <<>>]>>)

EdgeValues ==
    << {None, Num(5), NaN, Step("request"), Y_fn, Five_fn},
       {None, Num(5), Num(3), Step("request")},
       {None, Num(0), Num(5)},
       {None, Num(0)},
       {None, Num(5), Step("request"), Y_fn},
       {None} >>
ValueSets ==
    {<<v1, v2, v3, v4, v5, v6>> :
        v1 \in EdgeValues[1], v2 \in EdgeValues[2], v3 \in EdgeValues[3],
        v4 \in EdgeValues[4], v5 \in EdgeValues[5], v6 \in EdgeValues[6]}
CallDicts == {EmptyDict, K_V0 :> Num(5), K_V0 :> Num(3)}

Variant == IF mode \in {"cli", "lib", "call_cli", "grid_cli"} THEN "cli" ELSE "page"

InitCall == \E m \in {"call_cli", "call_page"} : Idle(m)

\* solve_laplace_complete(a, b, nx, ny, terms, boundary_funcs)
SolveCall ==
    /\ mode \in {"call_cli", "call_page"}
    /\ pc = "idle"
    /\ \E av \in APool, bv \in BPool, tv \in TermsPool, bf \in ValueSets, d \in CallDicts,
          g \in GridPool :
        LET s == Solve(Variant, av, bv, g[1], g[2], tv, bf,
                       [request |-> d, default |-> defaultPrompted])
        IN  /\ a' = av /\ b' = bv /\ terms' = tv
            /\ nx' = g[1] /\ ny' = g[2]
            /\ funcs' = bf
            /\ prompted' = d
            /\ result' = s.result
            /\ V' = s.V
    /\ pc' = "done"
    /\ UNCHANGED <<otherPages, mode, strs, defaultPrompted, out, asked, prev>>

\* the caller sets the constants of the dict the closures read (to the same
\* or to other values) and calls the solver again with the same arguments
SolveAgain ==
    /\ mode \in {"call_cli", "call_page"}
    /\ pc = "done"
    /\ prev = NoResult
    /\ \E d \in CallDicts :
        LET s == Solve(Variant, a, b, nx, ny, terms, funcs,
                       [request |-> d, default |-> defaultPrompted])
        IN  /\ prompted' = d
            /\ prev' = result
            /\ result' = s.result
            /\ V' = s.V
    /\ UNCHANGED <<otherPages, mode, pc, a, b, terms, strs, funcs, defaultPrompted, out, asked, nx, ny>>

NextCall == SolveCall \/ SolveAgain \/ Finish

SpecCall == InitCall /\ [][NextCall]_vars

----------------------------------------------------------------------------
(* The solver on the grids and with the numbers of terms at which float64   *)
(* overflows: direct calls of solve_laplace_complete                         *)

\* the largest number of terms the page's widget accepts
TermsMax == 200
GridTermsPool == TermsPool \cup {TermsMax}
GridAPool == {1}
GridBPool == {1, 3}
\* the nx and the ny a caller passes
NPool ==
    { <<0 - 1, 5>>, <<0, 5>>, <<1, 5>>, <<5, 0>>, <<5, 1>>, <<2, 2>>, <<2, 5>> }
\* the boundary sets of the three solutions and the empty one, and the set
\* the page's handler binds for V_nought(y) and five texts NaN (float("NaN"))
SupportedSets ==
    { <<Step("request"), None, None, None, None, None>>,
      <<Step("request"), NaN, NaN, NaN, NaN, NaN>>,
      <<Five_fn, Five_fn, Num(0), Num(0), None, None>>,
      <<None, None, Num(0), Num(0), Step("request"), None>>,
      <<Num(5), Num(5), Num(0), Num(0), None, None>>,
      <<None, None, Num(0), Num(0), None, None>> }
GridDicts == {EmptyDict, K_V0 :> Num(5)}

InitGrid == \E m \in {"grid_cli", "grid_page"} : Idle(m)

\* solve_laplace_complete(a, b, nx, ny, terms, boundary_funcs), called directly
GridCall ==
    /\ mode \in {"grid_cli", "grid_page"}
    /\ pc = "idle"
    /\ \E av \in GridAPool, bv \in GridBPool, g \in NPool,
          tv \in GridTermsPool, bf \in SupportedSets, d \in GridDicts :
        LET nv == g[1]
            mv == g[2]
            s == Solve(Variant, av, bv, nv, mv, tv, bf,
                       [request |-> d, default |-> defaultPrompted])
        IN  /\ a' = av /\ b' = bv /\ terms' = tv
            /\ nx' = nv /\ ny' = mv
            /\ funcs' = bf
            /\ prompted' = d
            /\ result' = s.result
            /\ V' = s.V
    /\ pc' = "done"
    /\ UNCHANGED <<otherPages, mode, strs, defaultPrompted, out, asked, prev>>

NextGrid == GridCall \/ Finish

SpecGrid == InitGrid /\ [][NextGrid]_vars

----------------------------------------------------------------------------
(* The branch patterns, stated on the bound edges of the state *)

Done == pc = "done"
Solved == pc = "done" /\ result.status = "ok"

\* x=-b is bound to a function
SidePattern == IsCallable(funcs[1])

\* x=0 is bound to a function; the page knows only the V_nought step there
CenterPattern ==
    IF Variant = "cli" THEN IsCallable(funcs[5]) ELSE funcs[5].t = "step"

\* x=-b and x=+b hold the same value, and on the page y=-a and y=+a hold zero
SymPattern ==
    LET vm == CallOrValue(funcs[1], 0 - b, 0, a, Heap)
        vp == CallOrValue(funcs[2], b, 0, a, Heap)
    IN  /\ vm.t = "num"
        /\ vp.t = "num"
        /\ IF Variant = "cli" THEN vm.v = vp.v ELSE AllClose(vm, vp)
        /\ Variant = "page" =>
             /\ CallOrValue(funcs[3], 0 - b, 0 - a, a, Heap) = Num(0)
             /\ CallOrValue(funcs[4], b, a, a, Heap) = Num(0)

Matches(br) ==
    IF br = "side" THEN SidePattern
    ELSE IF br = "center" THEN CenterPattern
    ELSE SymPattern

\* the first branch of order whose pattern the edges match, among at least two
FirstOfSeveral(order) ==
    LET hits == {i \in DOMAIN order : Matches(order[i])}
    IN  IF Cardinality(hits) >= 2
        THEN order[CHOOSE i \in hits : \A j \in hits : i <= j]
        ELSE "any"

SpecOrder == <<"side", "center", "sym">>
\* the order each variant tests in; the page has no side-injected branch
CodeOrder == IF Variant = "cli" THEN <<"side", "center", "sym">> ELSE <<"sym", "center">>

\* C1 as stated: whenever the edges match more than one pattern, the branch used
\* is the first of side-injected, centerline-injected, symmetric
C1_SpecPriority ==
    Solved /\ FirstOfSeveral(SpecOrder) # "any" => result.branch = FirstOfSeveral(SpecOrder)

\* C1, amended: whenever the edges match more than one pattern, the script uses
\* the first of side-injected, centerline-injected, symmetric, and the page the
\* first of symmetric, centerline-injected
C1_VariantPriority ==
    Solved /\ FirstOfSeveral(CodeOrder) # "any" => result.branch = FirstOfSeveral(CodeOrder)

\* the page solved a request whose edges match the symmetric and the centerline pattern
C1_Witness ==
    /\ Solved
    /\ Variant = "page"
    /\ SymPattern /\ CenterPattern
    /\ result.branch = "sym"

\* C3 as stated: edges that match no pattern give a zero field and a label
\* saying that no solution is implemented, and nothing is raised
C3_UnsupportedReturnsLabel ==
    Done /\ ~SidePattern /\ ~CenterPattern /\ ~SymPattern =>
        /\ result.status = "ok"
        /\ result.field = ZeroField
        /\ result.latex_eqn = latex_none

----------------------------------------------------------------------------
(* The binder's claims, on the requests of the script and of the page *)

IsNaNText(s) == Lower(s) = T_nan
Params == (K_a :> Num(a)) @@ (K_b :> Num(b))
\* the x at which the claims sample a bound function
XS == {0 - b, 0, b}

\* C2 as stated: the same numeric literal c on x=-b and x=+b, "0" on y=-a and
\* y=+a and NaN on x=0 and y=0 select the cosh branch with V0 = c and its label
C2_SameLiteralSelectsCosh ==
    /\ Done
    /\ AllDigits(strs[1]) /\ strs[2] = strs[1]
    /\ strs[3] = S_0 /\ strs[4] = S_0
    /\ IsNaNText(strs[5]) /\ IsNaNText(strs[6])
    => /\ result.status = "ok"
       /\ result.branch = "sym"
       /\ result.field.amp = Num(DigitsValue(strs[1]))
       /\ result.latex_eqn = latex_cosh

\* C4 as stated: a NaN text (in any case) and an empty text are both bound to
\* None on every edge, and the request with an empty text on an edge ends as the
\* request with NaN there
C4_EmptyIsNaN ==
    /\ \A i \in DOMAIN funcs :
         IsNaNText(strs[i]) \/ strs[i] = <<>> => funcs[i] = None
    /\ Done /\ mode = "page" =>
         \A i \in 1..6 :
            strs[i] = <<>> =>
               result = PageRun([strs EXCEPT ![i] = S_NaN], a, b, <<nx, ny>>, terms, prompted).result

\* C5 as stated: a numeric literal is bound to the number it writes, not to a callable
C5_LiteralIsConstant ==
    \A i \in DOMAIN funcs :
        AllDigits(strs[i]) => funcs[i] = Num(DigitsValue(strs[i]))

\* C6: the function bound for V_nought(y) returns the V0 of the dict for
\* -a/2 < y < a/2 and 0 for every other y, whatever x, and the dict holds V0
C6_StepReadsBoundV0 ==
    \A i \in DOMAIN funcs :
        strs[i] = S_VNought /\ IsCallable(funcs[i]) =>
            /\ funcs[i].t = "step"
            /\ K_V0 \in DOMAIN Heap[funcs[i].ref]
            /\ \A x \in XS, y \in YS :
                 Apply(funcs[i], x, y, a, Heap) =
                    IF (0 - a) < 2 * y /\ 2 * y < a
                    THEN Heap[funcs[i].ref][K_V0] ELSE Num(0)

\* a request is done with V_nought(y) bound while the dict holds a V0 other
\* than the fallback
C6_Witness ==
    /\ Done
    /\ \E i \in 1..6 : strs[i] = S_VNought /\ funcs[i].t = "step"
    /\ K_V0 \in DOMAIN Heap[DictRef]
    /\ Heap[DictRef][K_V0] = Num(2)

\* the number of input() calls of the request for name k
TimesAsked(k) == Cardinality({j \in DOMAIN asked : asked[j].name = k})

\* C7 as stated: no name is asked for twice in one request, and every bound
\* expression is the text with the one value of the dict substituted
C7_PromptedOnce ==
    mode = "cli" /\ pc # "idle" =>
        /\ \A j \in DOMAIN asked : TimesAsked(asked[j].name) <= 1
        /\ \A i \in DOMAIN funcs :
             funcs[i].t = "expr" =>
                funcs[i] = Expr(SubsValues(Sympify(strs[i]),
                                           DictMerge(Params, Heap[DictRef])))

\* a text neither float(), the NaN test, the V_nought test nor sympify accepts
Unparseable(s) ==
    /\ s # <<>>
    /\ ~IsNaNText(s)
    /\ ~Contains(s, T_VNought)
    /\ FloatParse(s).t = "raise"
    /\ Sympify(s).t = "raise"

NotANumber(reply) == FloatParse(reply).t = "raise"

\* C9 as stated: a reply that is not a number ends the request in an error, and
\* no field is computed
C9_InvalidValueIsFatal ==
    Done /\ (\E j \in DOMAIN asked : NotANumber(asked[j].reply)) =>
        result.status = "raise"

\* C9, amended: a reply that is not a number for a constant of an expression
\* binds 0 to the constant, with a message; for V0 of V_nought it leaves the
\* edge unspecified, with an error message; either way the request goes on and
\* the solver returns a field
C9_InvalidValueDefaultsToZero ==
    /\ \A j \in DOMAIN asked :
         NotANumber(asked[j].reply) =>
            IF asked[j].via = "constant"
            THEN /\ asked[j].name \in DOMAIN Heap[DictRef]
                 /\ Heap[DictRef][asked[j].name] = Num(0)
                 /\ InvalidValueMsg(asked[j].name) \in out
            ELSE ParseErrorMsg(S_VNought) \in out
    /\ Done /\ mode \in {"cli", "lib"} => result.status = "ok"

\* a request is done whose side-injected field was computed from V0*y with 0
\* in the place of the V0 the user could not give
C9_Witness ==
    /\ Done
    /\ mode = "cli"
    /\ strs[1] = S_V0y
    /\ \E j \in DOMAIN asked : NotANumber(asked[j].reply) /\ asked[j].via = "constant"
    /\ result.status = "ok"
    /\ result.branch = "side"
    /\ \A y \in YS : result.field.profile[y] = Num(0)

\* C10 as stated: the binder of a request sees only constants bound in that request
C10_BindingNotCarried ==
    mode \in {"cli", "lib"} /\ pc # "idle" =>
        DOMAIN Heap[DictRef] \subseteq {asked[j].name : j \in DOMAIN asked}

----------------------------------------------------------------------------
(* The array *)

ValidCall == pc = "done" /\ nx >= 2 /\ ny >= 2

\* C11 as stated: for valid a, b, nx, ny, terms and a supported boundary set,
\* no entry of the returned array is nan or infinite, whatever the branch
C11_FieldIsFinite ==
    ValidCall /\ result.status = "ok" =>
        \A p \in DOMAIN V : V[p] \in {"zero", "fin"}

\* C12 as stated: a second call with the same a, b, nx, ny, terms and the same
\* six bound values returns what the first returned, also when a constant of
\* the dict was set to another value in between
C12_SameArgumentsSameResult ==
    pc = "done" /\ prev # NoResult => result = prev

\* the bound edge is a function whose value changes with y
DependsOnY(f) ==
    \/ f.t = "step"
    \/ f.t = "expr" /\ \E i \in DOMAIN f.fs : f.fs[i].k = "sym" /\ f.fs[i].s = K_y

\* the bound edge is a constant: a number, or a function of neither x nor y
IsConstantEdge(f) ==
    \/ f.t = "num"
    \/ f.t = "expr" /\ \A i \in DOMAIN f.fs : f.fs[i].k = "num"

\* the bound y edge is 0 or unspecified
ZeroOrUnspecified(f) ==
    f = None \/ (IsConstantEdge(f) /\ CallOrValue(f, 0, 0, a, Heap) = Num(0))

\* C13 as stated: the cosh solution is returned only for two constant x edges
\* that agree and y edges that are 0 or unspecified, never for an x edge that
\* is a function of y, and an unspecified y edge does not make the solve fail
C13_SymmetricOnlyForConstants ==
    Done =>
        /\ result.status = "ok" /\ result.branch = "sym" =>
              /\ IsConstantEdge(funcs[1]) /\ IsConstantEdge(funcs[2])
              /\ ~DependsOnY(funcs[1]) /\ ~DependsOnY(funcs[2])
              /\ CallOrValue(funcs[1], 0 - b, 0, a, Heap)
                    = CallOrValue(funcs[2], b, 0, a, Heap)
              /\ ZeroOrUnspecified(funcs[3]) /\ ZeroOrUnspecified(funcs[4])
        /\ funcs[3] = None \/ funcs[4] = None => result.status # "raise"

\* the x of the grid columns of the request
GridX == IF Variant = "cli" THEN linspace(0 - 2 * b, 2 * b, nx) ELSE linspace(0 - b, b, nx)

\* column c is next to x = -b: not on it, and no column lies between the two
NextToMinusB(c) ==
    LET t == (0 - b) * GridX[c].den
        u == GridX[c].num
    IN  /\ u # t
        /\ \A d \in DOMAIN GridX :
              LET v == GridX[d].num IN ~((u < v /\ v < t) \/ (t < v /\ v < u))

\* the request of C14 as the solver receives it: the step V_nought(y) bound
\* on x = -b, the text NaN bound on the five other edges (None by the script,
\* float("NaN") by the page), V0 bound to a number that is not 0
OnlyMinusBInjected ==
    /\ pc = "done"
    /\ funcs # <<>>
    /\ funcs[1] # None /\ funcs[1].t = "step"
    /\ (\A i \in 2..6 : funcs[i] = None) \/ (\A i \in 2..6 : funcs[i] = NaN)
    /\ K_V0 \in DOMAIN prompted
    /\ prompted[K_V0].t = "num" /\ prompted[K_V0].v # 0

\* C14 as stated: that request takes the side-injected branch, and the array
\* it returns is finite everywhere and not zero in the columns next to x = -b
C14_SideInjectedFromText ==
    OnlyMinusBInjected /\ nx >= 2 /\ ny >= 2 =>
        /\ result.status = "ok"
        /\ result.branch = "side"
        /\ \A p \in DOMAIN V : V[p] \in {"zero", "fin"}
        /\ \A c \in 1..nx : NextToMinusB(c) => \E r \in 1..ny : V[<<r, c>>] = "fin"

\* C15 as stated: with nx < 2 or ny < 2 the solver returns no grid and no
\* field, the call ends in an error
C15_SmallGridRejected ==
    pc = "done" /\ (nx < 2 \/ ny < 2) => result.status = "raise"

----------------------------------------------------------------------------
(* The projectile page, src/pages/ProjectileMotion.py.  One step of the     *)
(* animation is dt = 0.05 s.  Times are counted in steps, accelerations in  *)
(* 0.1 m/s^2, velocities in 0.005 m/s and lengths in 0.00025 m: v += a * dt *)
(* and x += v * dt are then additions of integers.  Velocities and heights  *)
(* of sliders are in m/s and m, angles in degrees, the air density in       *)
(* g/m^3 and the drag coefficient in hundredths.                            *)

\* the slider values of lines 68-76
SliderDefaults ==
    [param_v0 |-> 50, param_angle |-> 45, param_h0 |-> 0,
     param_gravity |-> 98, param_wind |-> 0,
     param_ball_density |-> 1000, param_ball_volume |-> 500,
     param_air_density |-> 1225, param_drag_coefficient |-> 47]

\* the positions the user moves a slider to
SliderValues ==
    [param_v0 |-> {10, 50}, param_angle |-> {0, 45}, param_h0 |-> {0, 100},
     param_gravity |-> {98, 200}, param_wind |-> {0, 100},
     param_ball_density |-> {1000, 2000}, param_ball_volume |-> {500},
     param_air_density |-> {1225}, param_drag_coefficient |-> {47}]

\* the sliders of the column Initial Conditions, and the others
InitialKeys == {"param_v0", "param_angle", "param_h0"}
PhysicsKeys == DOMAIN SliderValues \ InitialKeys

\* the largest number of steps of a flight
MaxSteps == 2

\* 10000 * np.cos(np.deg2rad(angle)) and 10000 * np.sin(np.deg2rad(angle))
CosE4(angle) == IF angle = 0 THEN 10000 ELSE IF angle = 45 THEN 7071 ELSE 0
SinE4(angle) == IF angle = 0 THEN 0 ELSE IF angle = 45 THEN 7071 ELSE 10000

\* a height in m, a velocity in m/s in the units of the model
Length(h) == 4000 * h
Velocity(v, partE4) == (v * partE4) \div 50

\* r * r <= q, without the product
SquareLe(r, q) == r = 0 \/ r <= q \div r

\* np.sqrt, rounded down: the multiple of 216 below the root, then the root
sqrt(q) ==
    LET h == CHOOSE i \in 0..215 : SquareLe(216 * i, q) /\ ~SquareLe(216 * (i + 1), q)
    IN  CHOOSE r \in (216 * h)..(216 * h + 215) : SquareLe(r, q) /\ ~SquareLe(r + 1, q)

\* i / j rounded towards 0
Quot(i, j) == IF i >= 0 THEN i \div j ELSE 0 - ((0 - i) \div j)

\* reset_simulation() leaving the path as it is
reset_simulation_keeping_path(ss) ==
    [ss EXCEPT
        !.status = "stopped",
        !.t = 0,
        !.h0 = ss.param_h0,
        !.max_height = Length(ss.param_h0),
        !.x = 0,
        !.y = Length(ss.param_h0),
        !.vx = Velocity(ss.param_v0, CosE4(ss.param_angle)),
        !.vy = Velocity(ss.param_v0, SinE4(ss.param_angle)),
        !.initial_v = ss.param_v0,
        !.initial_angle = ss.param_angle,
        !.initial_h = ss.param_h0]

\* reset_simulation()
reset_simulation(ss) ==
    [ss EXCEPT
        !.status = "stopped",
        !.t = 0,
        !.h0 = ss.param_h0,
        !.max_height = Length(ss.param_h0),
        !.path_x = <<0>>,
        !.path_y = <<Length(ss.param_h0)>>,
        !.x = 0,
        !.y = Length(ss.param_h0),
        !.vx = Velocity(ss.param_v0, CosE4(ss.param_angle)),
        !.vy = Velocity(ss.param_v0, SinE4(ss.param_angle)),
        !.initial_v = ss.param_v0,
        !.initial_angle = ss.param_angle,
        !.initial_h = ss.param_h0]

\* lines 67-77: the session of a browser that opens the page
NewSession ==
    reset_simulation(
        [k \in {"status", "t", "h0", "max_height", "x", "y", "vx", "vy",
                "initial_v", "initial_angle", "initial_h"} |-> 0]
            @@ [path_x |-> <<>>, path_y |-> <<>>] @@ SliderDefaults)

\* the dict of the sliders as they are when the session is opened
ParamsOf_defaults(ss) ==
    [gravity |-> SliderDefaults.param_gravity, wind |-> SliderDefaults.param_wind,
     ball_density |-> SliderDefaults.param_ball_density,
     ball_volume |-> SliderDefaults.param_ball_volume,
     air_density |-> SliderDefaults.param_air_density,
     drag_coefficient |-> SliderDefaults.param_drag_coefficient,
     v0 |-> ss.param_v0, angle |-> ss.param_angle, h0 |-> ss.param_h0]

\* line 193: the dict of the param_ entries of the session, as it is now
ParamsOf(ss) ==
    [gravity |-> ss.param_gravity, wind |-> ss.param_wind,
     ball_density |-> ss.param_ball_density, ball_volume |-> ss.param_ball_volume,
     air_density |-> ss.param_air_density, drag_coefficient |-> ss.param_drag_coefficient,
     v0 |-> ss.param_v0, angle |-> ss.param_angle, h0 |-> ss.param_h0]

\* lines 23-24: the mass in g
Mass(params) ==
    LET m == (params.ball_density * params.ball_volume) \div 1000
    IN  IF m = 0 THEN 1 ELSE m

\* lines 25-26: the cross section in mm^2 of a ball of 500 cm^3
cross_sectional_area(ball_volume) == 7617

\* line 27: drag_constant, in units of 1e-6 kg/m
drag_constant(params) ==
    (((params.air_density * params.drag_coefficient) \div 100)
        * cross_sectional_area(params.ball_volume)) \div 2000

\* lines 35-37: (F_drag / m) * (v / speed), in 0.1 m/s^2
DragAccel(params, speed, v) ==
    LET km == (drag_constant(params) * 1000) \div Mass(params)
        q == Quot(speed * v, 4000)
    IN  Quot(km * q, 1000000)

\* Projectile.update(dt) with no gravity in total_ay
update_without_gravity(p, params) ==
    LET speed == sqrt(p.vx * p.vx + p.vy * p.vy)
        total_ax == params.wind - (IF speed > 0 THEN DragAccel(params, speed, p.vx) ELSE 0)
        total_ay == 0 - (IF speed > 0 THEN DragAccel(params, speed, p.vy) ELSE 0)
        vx2 == p.vx + total_ax
        vy2 == p.vy + total_ay
    IN  [x |-> p.x + vx2, y |-> p.y + vy2, vx |-> vx2, vy |-> vy2]

\* Projectile.update(dt) on the position and the velocity p
update(p, params) ==
    LET speed == sqrt(p.vx * p.vx + p.vy * p.vy)
        total_ax == params.wind - (IF speed > 0 THEN DragAccel(params, speed, p.vx) ELSE 0)
        total_ay == (0 - params.gravity)
                        - (IF speed > 0 THEN DragAccel(params, speed, p.vy) ELSE 0)
        vx2 == p.vx + total_ax
        vy2 == p.vy + total_ay
    IN  [x |-> p.x + vx2, y |-> p.y + vy2, vx |-> vx2, vy |-> vy2]

\* line 81: is_running, the `disabled` of the three sliders of lines 87-89
is_running(status) == status # "stopped"

\* the status in which the script steps, were it every status but stopped
Animates_unless_stopped(status) == status # "stopped"
\* line 192
Animates(status) == status = "running"

\* lines 149-154: the label of the first button
ButtonLabel(status) ==
    IF status = "paused" THEN "Resume" ELSE IF status = "stopped" THEN "Start" ELSE "Pause"

Max(i, j) == IF i >= j THEN i ELSE j

\* lines 193-206: one step of the animation
AnimationStep(ss) ==
    LET p == update([x |-> ss.x, y |-> ss.y, vx |-> ss.vx, vy |-> ss.vy], ParamsOf(ss))
    IN  [ss EXCEPT
            !.t = ss.t + 1,
            !.x = p.x, !.y = p.y, !.vx = p.vx, !.vy = p.vy,
            !.path_x = Append(ss.path_x, p.x),
            !.path_y = Append(ss.path_y, p.y),
            !.max_height = Max(ss.max_height, p.y),
            !.status = IF p.y < 0 THEN "stopped" ELSE ss.status]

\* one run of the script from line 79 on, the browser having sent a click on
\* the button labelled `click` ("none": no click).  The run ends at the first
\* st.rerun() it reaches, or at the end of the script.
ScriptRun(ss, click) ==
    LET shown == [disabled |-> is_running(ss.status), button |-> ButtonLabel(ss.status)]
    IN  IF click = shown.button /\ click \in {"Start", "Resume"}
        THEN [ss |-> [ss EXCEPT !.status = "running"], browser |-> shown, rerun |-> TRUE]
        ELSE IF click = shown.button /\ click = "Pause"
        THEN [ss |-> [ss EXCEPT !.status = "paused"], browser |-> shown, rerun |-> TRUE]
        ELSE IF click = "Reset"
        THEN [ss |-> reset_simulation(ss), browser |-> shown, rerun |-> TRUE]
        ELSE IF Animates(ss.status)
        THEN [ss |-> AnimationStep(ss), browser |-> shown, rerun |-> TRUE]
        ELSE [ss |-> ss, browser |-> shown, rerun |-> FALSE]

\* the history kept with the state: whether the last click was on Reset, with
\* the status and the flight before it, and how far the session is in the
\* sequence pause, change of a slider, resume, step
NextStage(stage, ss, ss2, reset, moved) ==
    IF reset THEN "none"
    ELSE IF moved /\ ss.status = "paused" THEN "changed"
    ELSE IF stage = "changed" /\ ss.status = "paused" /\ ss2.status = "running" THEN "resumed"
    ELSE IF stage = "resumed" /\ ss2.t = ss.t + 1 THEN "stepped"
    ELSE stage

\* the run that follows the event e: ss1 is the session after the widget
\* values were written and the callback was called
RunScript(e, ss1, click, reset, moved) ==
    LET r == ScriptRun(ss1, click)
    IN  /\ r.ss.t > ss1.t => ss1.t < MaxSteps
        /\ session_state' = r.ss
        /\ browser' = r.browser
        /\ rerun' = r.rerun
        /\ ghost' = [event |-> IF click = "Reset" THEN "Reset" ELSE "other",
                     from |-> IF click = "Reset" THEN session_state.status ELSE "",
                     flown |-> click = "Reset" /\ session_state.t > 0,
                     stage |-> NextStage(ghost.stage, session_state, r.ss,
                                         reset \/ click = "Reset", moved)]

LaplaceVars == <<mode, pc, a, b, terms, strs, funcs, prompted, defaultPrompted,
                 out, asked, result, nx, ny, V, prev>>

InitProj ==
    /\ LaplaceIdle("projectile")
    /\ session_state = NewSession
    /\ browser = [disabled |-> is_running("stopped"), button |-> ButtonLabel("stopped")]
    /\ rerun = FALSE
    /\ ghost = [event |-> "other", from |-> "", flown |-> FALSE, stage |-> "none"]

\* the run st.rerun() asked for
Rerun ==
    /\ mode = "projectile"
    /\ rerun
    /\ RunScript("rerun", session_state, "none", FALSE, FALSE)
    /\ UNCHANGED LaplaceVars

\* the user clicks the first button, as the browser shows it
ClickControl ==
    /\ mode = "projectile"
    /\ RunScript(browser.button, session_state, browser.button, FALSE, FALSE)
    /\ UNCHANGED LaplaceVars

\* the user clicks Reset
ClickReset ==
    /\ mode = "projectile"
    /\ RunScript("Reset", session_state, "Reset", TRUE, FALSE)
    /\ UNCHANGED LaplaceVars

\* the user moves a slider of the initial conditions, which the browser shows
\* enabled: the value is written, on_change calls reset_simulation, the script runs
MoveInitialSlider ==
    /\ mode = "projectile"
    /\ ~browser.disabled
    /\ \E k \in InitialKeys : \E v \in SliderValues[k] \ {session_state[k]} :
         RunScript(k, reset_simulation([session_state EXCEPT ![k] = v]), "none", TRUE, FALSE)
    /\ UNCHANGED LaplaceVars

\* the user moves another slider: the value is written and the script runs
MovePhysicsSlider ==
    /\ mode = "projectile"
    /\ \E k \in PhysicsKeys : \E v \in SliderValues[k] \ {session_state[k]} :
         RunScript(k, [session_state EXCEPT ![k] = v], "none", FALSE, TRUE)
    /\ UNCHANGED LaplaceVars

NextProj == Rerun \/ ClickControl \/ ClickReset \/ MoveInitialSlider \/ MovePhysicsSlider

SpecProj == InitProj /\ [][NextProj]_vars

----------------------------------------------------------------------------
(* The claims about the projectile page.                                     *)

\* C16 as stated: in every reachable state with status running or paused the
\* sliders of the launch velocity, the launch angle and the initial height
\* are disabled in the browser
C16_InitialSlidersLocked ==
    mode = "projectile" /\ session_state.status \in {"running", "paused"} => browser.disabled

\* the time, the position, the velocity, the path and the greatest height
Kinematics(ss) == <<ss.t, ss.x, ss.y, ss.vx, ss.vy, ss.path_x, ss.path_y, ss.max_height>>

\* C17: while the status is paused no run of the script, whether it was asked
\* for by st.rerun(), by a slider or by the click on Resume, changes t, x, y,
\* vx, vy, path_x, path_y or max_height; only a click on Reset does
C17_PauseFreezes ==
    [][mode = "projectile" /\ session_state.status = "paused" /\ ghost'.event # "Reset"
          => Kinematics(session_state') = Kinematics(session_state)]_vars

\* a flight that was paused after a step, and a slider moved while it was paused
C17_Witness ==
    /\ mode = "projectile"
    /\ session_state.status = "paused"
    /\ session_state.t > 0
    /\ ghost.stage = "changed"
    /\ ParamsOf(session_state) # ParamsOf(NewSession)

\* the sliders of gravity, wind, drag and density as the session holds them
\* after the event of the step
CurrentValues ==
    [gravity |-> session_state'.param_gravity, wind |-> session_state'.param_wind,
     ball_density |-> session_state'.param_ball_density,
     ball_volume |-> session_state'.param_ball_volume,
     air_density |-> session_state'.param_air_density,
     drag_coefficient |-> session_state'.param_drag_coefficient,
     v0 |-> session_state'.param_v0, angle |-> session_state'.param_angle,
     h0 |-> session_state'.param_h0]

C19_ResetToLaunch ==
    mode = "projectile" /\ ghost.event = "Reset" =>
        /\ session_state.status = "stopped"
        /\ session_state.t = 0
        /\ session_state.h0 = session_state.param_h0
        /\ session_state.x = 0
        /\ session_state.y = 4000 * session_state.h0
        /\ session_state.vx = (session_state.param_v0 * CosE4(session_state.param_angle)) \div 50
        /\ session_state.vy = (session_state.param_v0 * SinE4(session_state.param_angle)) \div 50
        /\ session_state.max_height = 4000 * session_state.h0
        /\ session_state.path_x = <<0>>
        /\ session_state.path_y = <<4000 * session_state.h0>>

\* Reset clicked during a flight that had taken a step, launched from a
\* height, a velocity and an angle the sliders were moved to
C19_Witness ==
    /\ mode = "projectile"
    /\ ghost.event = "Reset"
    /\ ghost.from = "running"
    /\ ghost.flown
    /\ session_state.param_h0 = 100
    /\ session_state.param_v0 = 10
    /\ session_state.param_angle = 0

----------------------------------------------------------------------------
(* The wave packet page, src/pages/SchrodingerWaveEquation.py.  session_state *)
(* holds the values of the widgets, browser the chart the last run drew.     *)
(* Coordinates are fractions as in linspace; the time step is in hundredths. *)

\* line 20: the options of the select_slider Grid Size
GridSizes == {16, 32, 48, 64}
\* line 22: the positions of the slider Space Extent, 4.0 to 12.0 by 1.0
SpaceExtents == 4..12
\* line 23: positions of the slider Max Time
MaxTimes == {1, 6, 10}
\* line 26: the time step, 0.08 unless the slider is moved
dtE2 == 8

\* lines 20-23: the values of the widgets when the page is opened
WaveDefaults == [grid |-> 32, space |-> 8, tmax |-> 6]
WavePositions == [grid |-> GridSizes, space |-> SpaceExtents, tmax |-> MaxTimes]

\* line 142: len(np.arange(0, t_max, dt)) = ceil(t_max / dt)
arange_len(t_max) == (100 * t_max + dtE2 - 1) \div dtE2

\* lines 92-94 and 131: the three axes create_wave_packet_3d returns
create_wave_packet_3d(grid_size, space_extent) ==
    [x |-> linspace(0 - space_extent, space_extent, grid_size),
     y |-> linspace(0 - space_extent, space_extent, grid_size),
     z |-> linspace(0 - space_extent, space_extent, grid_size)]

\* line 217
title_text == "Wave Packet Evolution (2D Slice at z=0)"

\* line 250: no chart, the hint to click the button
NoChart == [title |-> "", slice_idx |-> 0, z |-> [num |-> 0, den |-> 1], frames |-> 0]

\* lines 138-247: the chart of a click on Generate & Animate.  slice_idx is an
\* index of numpy, from 0; z is the coordinate of the plane [:, :, slice_idx]
GenerateAndAnimate(ss) ==
    LET slice_idx == ss.grid \div 2
        wave == create_wave_packet_3d(ss.grid, ss.space)
    IN  [title |-> title_text,
         slice_idx |-> slice_idx,
         z |-> wave.z[slice_idx + 1],
         frames |-> arange_len(ss.tmax)]

InitWave ==
    /\ LaplaceIdle("wave")
    /\ session_state = WaveDefaults
    /\ browser = NoChart
    /\ rerun = FALSE
    /\ ghost = NoSession

\* the user clicks Generate & Animate: lines 138-247 run
Generate ==
    /\ mode = "wave"
    /\ browser' = GenerateAndAnimate(session_state)
    /\ UNCHANGED <<session_state, rerun, ghost, LaplaceVars>>

\* the user moves a widget: the script runs with the button not clicked, line 250
MoveWidget ==
    /\ mode = "wave"
    /\ \E k \in DOMAIN WavePositions : \E v \in WavePositions[k] \ {session_state[k]} :
          session_state' = [session_state EXCEPT ![k] = v]
    /\ browser' = NoChart
    /\ UNCHANGED <<rerun, ghost, LaplaceVars>>

NextWave == Generate \/ MoveWidget

SpecWave == InitWave /\ [][NextWave]_vars

\* C20 as stated: the plane the chart titled "2D Slice at z=0" plots, index
\* grid_size // 2 of the z axis, has the coordinate z = 0, for every grid size
\* and every space extent
C20_SliceIsZPlane ==
    mode = "wave" /\ browser.title = title_text => browser.z.num = 0

----------------------------------------------------------------------------
(* More claims about the projectile page.                                    *)

\* C21 as stated: in the state the click on Start leaves (status running, the
\* button still drawn as Start) the session is in the launch state: t = 0,
\* x = 0, y = h0 and a path of one point, also when a flight has landed before
C21_StartFromLaunchState ==
    mode = "projectile" /\ session_state.status = "running" /\ browser.button = "Start" =>
        /\ session_state.t = 0
        /\ session_state.x = 0
        /\ session_state.y = Length(session_state.h0)
        /\ Len(session_state.path_x) = 1
        /\ Len(session_state.path_y) = 1

----------------------------------------------------------------------------
(* A flight left to itself: the page was opened, the sliders were set and    *)
(* Start was clicked; from then on the script is run only by its own         *)
(* st.rerun(), lines 192-224.                                                *)

\* the positions the sliders are left in during the flight; gravity 1.0 is the
\* least value of its slider (line 93)
FlightValues ==
    [param_v0 |-> {10}, param_angle |-> {0, 45, 90}, param_h0 |-> {0, 10},
     param_gravity |-> {10, 98, 200}, param_wind |-> {0, 10},
     param_ball_density |-> {1000}, param_ball_volume |-> {500},
     param_air_density |-> {1225}, param_drag_coefficient |-> {0, 47}]

\* the largest number of steps of a flight left to itself
MaxFlight == 450

\* the session after the sliders were set to vs and Start was clicked
Started(vs) == [reset_simulation(vs @@ NewSession) EXCEPT !.status = "running"]

InitFlight ==
    /\ LaplaceIdle("flight")
    /\ \E v \in FlightValues.param_v0, an \in FlightValues.param_angle,
          h \in FlightValues.param_h0, g \in FlightValues.param_gravity,
          w \in FlightValues.param_wind, cd \in FlightValues.param_drag_coefficient :
          session_state =
              Started([SliderDefaults EXCEPT !.param_v0 = v, !.param_angle = an,
                                             !.param_h0 = h, !.param_gravity = g,
                                             !.param_wind = w,
                                             !.param_drag_coefficient = cd])
    /\ browser = [disabled |-> is_running("stopped"), button |-> ButtonLabel("stopped")]
    /\ rerun = TRUE
    /\ ghost = NoSession

\* the run st.rerun() asked for, lines 79-224
FlightRerun ==
    /\ mode = "flight"
    /\ rerun
    /\ Animates(session_state.status) => session_state.t < MaxFlight
    /\ \E r \in {ScriptRun(session_state, "none")} :
          /\ session_state' = r.ss
          /\ browser' = r.browser
          /\ rerun' = r.rerun
    /\ UNCHANGED <<ghost, LaplaceVars>>

NextFlight == FlightRerun

\* ENABLED <<FlightRerun>>_vars, and what every step of FlightRerun changes
FlightCanRun ==
    mode = "flight" /\ rerun /\ (Animates(session_state.status) => session_state.t < MaxFlight)
FlightRan == rerun' # rerun \/ session_state'.t # session_state.t

\* st.rerun() at lines 221 and 224 always starts the next run: weak fairness
\* of FlightRerun, WF_vars(FlightRerun) written out with the two definitions
SpecFlight ==
    InitFlight /\ [][NextFlight]_vars /\ ([]<>(~FlightCanRun) \/ []<><<FlightRan>>_vars)

\* C28: a flight left to itself ends.  From status running a state with
\* y < 0, status stopped and no rerun pending is reached; the step that first
\* gives y < 0 sets the status to stopped, no step starts from y < 0, and
\* once the status is stopped no run changes the flight
C28_FlightEnds ==
    /\ (mode = "flight" /\ session_state.status = "running")
          ~> (session_state.status = "stopped" /\ session_state.y < 0 /\ ~rerun)
    /\ [](mode = "flight" /\ session_state.status = "running" => session_state.y >= 0)
    /\ [][mode = "flight" =>
              /\ session_state'.t # session_state.t /\ session_state'.y < 0
                    => session_state'.status = "stopped"
              /\ session_state.status = "stopped"
                    => Kinematics(session_state') = Kinematics(session_state)]_vars

\* a flight under gravity 1.0 that has landed after more than 400 steps
C28_Witness ==
    /\ mode = "flight"
    /\ session_state.status = "stopped"
    /\ session_state.y < 0
    /\ ~rerun
    /\ session_state.param_gravity = 10
    /\ session_state.t > 400

----------------------------------------------------------------------------
(* The arguments of the cosh sum of the command-line script *)

\* the fractions p and q are the same number
FracEq(p, q) == p.num * q.den = q.num * p.den

\* sin(pi * p) = sin(pi * q) for fractions p and q: p - q is an even number
\* or p + q is an odd number
SinEq(p, q) ==
    LET diff == p.num * q.den - q.num * p.den
        sum == p.num * q.den + q.num * p.den
        den == p.den * q.den
    IN  \/ diff % (2 * den) = 0
        \/ sum % den = 0 /\ (sum \div den) % 2 = 1

\* C22 as stated: in the cosh sum of the command-line script the scaling by
\* min(a, b) cancels in every argument: at every grid point and for every n of
\* the sum the cosh are taken of n pi x/a and n pi b/a and the sine has the
\* value sin(n pi y/a), also when b < a
C22_ScalingCancels ==
    Solved /\ Variant = "cli" /\ result.branch = "sym" =>
        LET x == linspace(0 - 2 * b, 2 * b, nx)
            y == linspace(0 - 2 * a, 2 * a, ny)
        IN  \A i \in 1..terms, r \in 1..ny, c \in 1..nx :
                LET n == result.field.ns[i]
                    arg == CliCoshArgs(n, x[c], y[r], a, b)
                IN  /\ FracEq(arg.cosh, [num |-> n * x[c].num, den |-> a * x[c].den])
                    /\ FracEq(arg.denom, [num |-> n * b, den |-> a])
                    /\ SinEq(arg.sin, [num |-> n * y[r].num, den |-> a * y[r].den])

----------------------------------------------------------------------------
(* The centre line *)

\* C23 as stated: when x=0 is bound to a function of y, the V_nought step or
\* any parsed expression, and the side-injected branch does not match, the
\* solver takes the centre-line branch and computes every C_n from that function
C23_CenterFromFunction ==
    Solved /\ IsCallable(funcs[5]) /\ ~(Variant = "cli" /\ SidePattern) =>
        /\ result.branch = "center"
        /\ result.field = CnField(RangeAll(terms), funcs[5], a, Heap)

----------------------------------------------------------------------------
(* The number of terms *)

\* C24: in every solution branch exactly `terms` terms are summed: n = 1, ...,
\* terms in the side-injected and the centre-line branch, n = 1, 3, ...,
\* 2 * terms - 1 in the cosh branch, and the solve returns for every terms >= 1
C24_TermsAdded ==
    Solved /\ result.branch \in {"side", "center", "sym"} =>
        /\ Len(result.field.ns) = terms
        /\ \A i \in 1..terms :
              result.field.ns[i] = IF result.branch = "sym" THEN 2 * i - 1 ELSE i

\* the cosh sum of the largest number of terms the page accepts
C24_Witness ==
    Solved /\ result.branch = "sym" /\ terms = TermsMax /\ result.field.ns[terms] = 2 * TermsMax - 1

----------------------------------------------------------------------------
(* Overflow *)

\* C25 as stated: every sinh and cosh of a solve, the sinh of calculate_Cn
\* included, is taken of an argument clipped to 700 in magnitude and so is
\* finite, and the field, clipped to 1e15 after each term, has no infinite entry
C25_HyperbolicsClamped ==
    Solved =>
        /\ result.branch \in {"side", "center"} =>
              \A n \in 1..terms : CnSinh(n, a, b) # "inf"
        /\ result.branch = "side" =>
              \A n \in 1..terms, c \in 1..nx : sinh_term(n, GridX[c], a, b) # "inf"
        /\ result.branch = "sym" /\ Variant = "cli" =>
              \A i \in 1..terms, c \in 1..nx :
                  LET arg == CliCoshArgs(2 * i - 1, GridX[c], [num |-> 0, den |-> 1], a, b)
                  IN  /\ CoshClass(arg.cosh.num, arg.cosh.den) # "inf"
                      /\ CoshClass(arg.denom.num, arg.denom.den) # "inf"
        /\ \A p \in DOMAIN V : V[p] # "inf"

----------------------------------------------------------------------------
(* The Quantum Fourier Transform simulator: src/QFT.py, run as a script, and  *)
(* src/pages/QuantumFourierTransformation.py.  session_state holds the two    *)
(* inputs and browser what the last run drew and called.                      *)

\* the largest number of qubits the page accepts (line 32)
max_value == 5
\* the largest number of qubits typed into the script, which accepts any
\* positive integer
MaxQubits == 5

\* bin(initial_state_decimal)[2:]: the binary digits, the most significant first
RECURSIVE bin(_)
bin(s) == IF s < 2 THEN << s >> ELSE Append(bin(s \div 2), s % 2)

\* bin(initial_state_decimal)[2:].zfill(num_qubits)
binary_string(initial_state_decimal, num_qubits) ==
    LET digits == bin(initial_state_decimal)
    IN  [k \in 1..(num_qubits - Len(digits)) |-> 0] \o digits

\* the Bloch vectors of |0> and of |1>
Up == <<0, 0, 1>>
Down == <<0, 0, 0 - 1>>

\* line 223 (line 184 of the script): one vector per character, in reading order
initial_vectors(string) == [k \in 1..Len(string) |-> IF string[k] = 0 THEN Up ELSE Down]

\* plot_bloch_subplots: the vector drawn in the subplot titled 'Qubit i'
plot_bloch_subplots(state_vectors) ==
    [i \in 0..(Len(state_vectors) - 1) |-> state_vectors[i + 1]]

\* lines 96-100 of perform_qft_with_qiskit: the qubits circuit.x is applied to,
\* qubit i for character i of reversed(binary_string)
perform_qft_with_qiskit(initial_state_decimal, num_qubits) ==
    LET string == binary_string(initial_state_decimal, num_qubits)
        rev == [k \in 1..Len(string) |-> string[Len(string) + 1 - k]]
    IN  {i \in 0..(num_qubits - 1) : rev[i + 1] = 1}

\* lines 113-115 of the page: list(range(num_qubits)), qubit_index removed when
\* num_qubits > 1; lines 60-61 of the script: always removed
qubits_to_trace_out(variant, qubit_index, num_qubits) ==
    LET all == [k \in 1..num_qubits |-> k - 1]
    IN  IF variant = "script" \/ num_qubits > 1
        THEN SelectSeq(all, LAMBDA q : q # qubit_index)
        ELSE all

\* partial_trace(statevector, qargs): the qubits the reduced state is a state
\* of, and the number of its rows and columns
partial_trace(num_qubits, qargs) ==
    LET kept == (0..(num_qubits - 1)) \ {qargs[k] : k \in DOMAIN qargs}
    IN  [kept |-> kept, dim |-> 2 ^ Cardinality(kept)]

\* get_bloch_vector as far as the products with the Pauli matrices: a reduced
\* matrix that is not 2 x 2 makes `@` (np.dot in the script) raise ValueError
get_bloch_vector(variant, qubit_index, num_qubits) ==
    LET traced == qubits_to_trace_out(variant, qubit_index, num_qubits)
        reduced == partial_trace(num_qubits, traced)
    IN  [qubit_index |-> qubit_index, traced |-> traced, kept |-> reduced.kept,
         raises |-> reduced.dim # 2]

\* nothing was run since the inputs were set (line 245)
NoRun ==
    [status |-> "idle", binary_string |-> <<>>, initial |-> <<>>, x |-> {}, calls |-> <<>>]

\* lines 217-243 of the page, main() of the script: the initial plot, the
\* circuit, then get_bloch_vector for qubit 0, 1, ... until one raises
RunQFT(variant, ss) ==
    LET n == ss.num_qubits
        string == binary_string(ss.initial_state_decimal, n)
        all == [k \in 1..n |-> get_bloch_vector(variant, k - 1, n)]
        failed == {k \in 1..n : all[k].raises}
        last == IF failed = {} THEN n ELSE CHOOSE k \in failed : \A j \in failed : k <= j
    IN  [status |-> IF failed = {} THEN "done" ELSE "ValueError",
         binary_string |-> string,
         initial |-> plot_bloch_subplots(initial_vectors(string)),
         x |-> perform_qft_with_qiskit(ss.initial_state_decimal, n),
         calls |-> SubSeq(all, 1, last)]

QftVariant == IF mode = "qft_page" THEN "page" ELSE "script"

InitQft ==
    /\ \E m \in {"qft_page", "qft_script"} : LaplaceIdle(m)
    /\ session_state = [num_qubits |-> 2, initial_state_decimal |-> 1]
    /\ browser = NoRun
    /\ rerun = FALSE
    /\ ghost = NoSession

\* the two numbers are entered: the number_inputs of lines 30-42 of the page,
\* get_user_input of the script, which asks again until both are valid
EnterInputs ==
    /\ mode \in {"qft_page", "qft_script"}
    /\ \E n \in 1..(IF QftVariant = "page" THEN max_value ELSE MaxQubits) :
          \E s \in 0..(2 ^ n - 1) :
             session_state' = [num_qubits |-> n, initial_state_decimal |-> s]
    /\ browser' = NoRun
    /\ UNCHANGED <<rerun, ghost, LaplaceVars>>

\* the click on Run QFT Simulation, or main() after get_user_input
RunSimulation ==
    /\ mode \in {"qft_page", "qft_script"}
    /\ browser = NoRun
    /\ browser' = RunQFT(QftVariant, session_state)
    /\ UNCHANGED <<session_state, rerun, ghost, LaplaceVars>>

NextQft == EnterInputs \/ RunSimulation

SpecQft == InitQft /\ [][NextQft]_vars

\* a run of the simulator has drawn the initial plot and built the circuit
QftRan == mode \in {"qft_page", "qft_script"} /\ browser.status # "idle"

\* C26 as stated: the vector of the initial plot in the subplot titled 'Qubit i'
\* points down exactly when the circuit applies X to qubit i, which is when bit
\* i of the initial state, counted from the least significant, is 1
C26_SameQubitNumbering ==
    QftRan =>
        \A i \in 0..(session_state.num_qubits - 1) :
            /\ browser.initial[i] = Down <=> i \in browser.x
            /\ i \in browser.x <=> (session_state.initial_state_decimal \div (2 ^ i)) % 2 = 1

\* C27 as stated: every call of get_bloch_vector traces out exactly the qubits
\* other than qubit_index and is left with the 2 x 2 state of that qubit; with
\* one qubit nothing is traced out
C27_TracesOutTheOthers ==
    QftRan =>
        \A k \in DOMAIN browser.calls :
            LET call == browser.calls[k]
            IN  /\ {call.traced[j] : j \in DOMAIN call.traced}
                      = (0..(session_state.num_qubits - 1)) \ {call.qubit_index}
                /\ call.kept = {call.qubit_index}
                /\ ~call.raises
                /\ session_state.num_qubits = 1 => call.traced = <<>>

====
